---- MODULE Spec2Model ----
(***************************************************************************)
(* Model of app.py: the helper get_contiguous_ranges (lines 32-44), run    *)
(* statement by statement by one or more callers, and the Streamlit script *)
(* body that calls it from the "Overview Stats" section (lines 47-143).    *)
(***************************************************************************)
EXTENDS Integers, Sequences, FiniteSets, TLC

VARIABLES
    pc,             \* per invocation: the statement it is at
    indices,        \* per invocation: the argument (the caller's list)
    rest,           \* per invocation: what is left of the copy indices[1:]
    start,          \* per invocation: local start
    prev,           \* per invocation: local prev
    ranges,         \* per invocation: local list ranges
    result,         \* per invocation: the returned list
    first,          \* per invocation: the result of the first pass, for re-compression
    round,          \* per invocation: 1 on the given input, 2 on the re-expansion
    uploaded_file,  \* the st.file_uploader widget's value
    section,        \* the st.sidebar radio's value
    calls           \* the calls of get_contiguous_ranges made by the latest script run

helper_vars == <<pc, indices, rest, start, prev, ranges, result, first, round>>
page_vars == <<uploaded_file, section, calls>>
vars == <<pc, indices, rest, start, prev, ranges, result, first, round,
          uploaded_file, section, calls>>

----------------------------------------------------------------------------
(* Bounds of the model. *)

MaxLen == 4        \* longest argument of a single invocation
MaxVal == 3        \* arguments hold values in -1 .. MaxVal
ConcLen == 2       \* longest argument of an interleaved invocation
ConcMaxVal == 2    \* interleaved invocations hold values in 0 .. ConcMaxVal
MaxRows == 3       \* most rows of an uploaded dataset
MaxClass == 2      \* the Class column holds values in 0 .. MaxClass

Vals == -1 .. MaxVal
ConcVals == 0 .. ConcMaxVal
Callers == {1, 2}

SeqsUpTo(S, n) == UNION {[1 .. k -> S] : k \in 0 .. n}

----------------------------------------------------------------------------
(* get_contiguous_ranges as a function of its argument. *)

\* line 38: the test `i == prev + 1`
ContiguousOffByOne(p, i) == i = p
ContiguousAtLeast(p, i) == i >= p + 1
Contiguous(p, i) == i = p + 1

RECURSIVE scan(_, _, _, _)
\* lines 37-44: the for loop over indices[1:] and the final append
scan(todo, s, p, acc) ==
    IF todo = <<>>
    THEN Append(acc, <<s, p>>)
    ELSE LET i == Head(todo) IN
         IF Contiguous(p, i)
         THEN scan(Tail(todo), s, i, acc)
         ELSE scan(Tail(todo), i, i, Append(acc, <<s, p>>))

\* lines 32-44
get_contiguous_ranges(xs) ==
    IF xs = <<>> THEN <<>> ELSE scan(Tail(xs), xs[1], xs[1], <<>>)

----------------------------------------------------------------------------
(* get_contiguous_ranges statement by statement, for invocation p. *)

\* lines 33-34: `if not indices: return []`
CheckEmptyMissing(p) ==
    /\ pc[p] = "check"
    /\ pc' = [pc EXCEPT ![p] = "begin"]
    /\ UNCHANGED <<indices, rest, start, prev, ranges, result, first, round>>
    /\ UNCHANGED page_vars

CheckEmpty(p) ==
    /\ pc[p] = "check"
    /\ IF indices[p] = <<>>
       THEN /\ pc' = [pc EXCEPT ![p] = "done"]
            /\ result' = [result EXCEPT ![p] = <<>>]
       ELSE /\ pc' = [pc EXCEPT ![p] = "begin"]
            /\ UNCHANGED result
    /\ UNCHANGED <<indices, rest, start, prev, ranges, first, round>>
    /\ UNCHANGED page_vars

\* lines 35-37: ranges = [], start = prev = indices[0], the slice indices[1:];
\* indices[0] of an empty list raises IndexError
Begin(p) ==
    /\ pc[p] = "begin"
    /\ IF indices[p] = <<>>
       THEN /\ pc' = [pc EXCEPT ![p] = "error"]
            /\ UNCHANGED <<rest, start, prev, ranges>>
       ELSE /\ pc' = [pc EXCEPT ![p] = "loop"]
            /\ ranges' = [ranges EXCEPT ![p] = <<>>]
            /\ start' = [start EXCEPT ![p] = indices[p][1]]
            /\ prev' = [prev EXCEPT ![p] = indices[p][1]]
            /\ rest' = [rest EXCEPT ![p] = Tail(indices[p])]
    /\ UNCHANGED <<indices, result, first, round>>
    /\ UNCHANGED page_vars

\* lines 37-39: the next i continues the current range
ExtendStale(p) ==
    /\ pc[p] = "loop"
    /\ rest[p] # <<>>
    /\ Contiguous(prev[p], Head(rest[p]))
    /\ rest' = [rest EXCEPT ![p] = Tail(rest[p])]
    /\ UNCHANGED <<pc, indices, start, prev, ranges, result, first, round>>
    /\ UNCHANGED page_vars

Extend(p) ==
    /\ pc[p] = "loop"
    /\ rest[p] # <<>>
    /\ Contiguous(prev[p], Head(rest[p]))
    /\ prev' = [prev EXCEPT ![p] = Head(rest[p])]
    /\ rest' = [rest EXCEPT ![p] = Tail(rest[p])]
    /\ UNCHANGED <<pc, indices, start, ranges, result, first, round>>
    /\ UNCHANGED page_vars

\* lines 37, 40-42: the next i closes the current range and opens a new one
CloseSwapped(p) ==
    /\ pc[p] = "loop"
    /\ rest[p] # <<>>
    /\ ~Contiguous(prev[p], Head(rest[p]))
    /\ ranges' = [ranges EXCEPT ![p] = Append(ranges[p], <<prev[p], start[p]>>)]
    /\ start' = [start EXCEPT ![p] = Head(rest[p])]
    /\ prev' = [prev EXCEPT ![p] = Head(rest[p])]
    /\ rest' = [rest EXCEPT ![p] = Tail(rest[p])]
    /\ UNCHANGED <<pc, indices, result, first, round>>
    /\ UNCHANGED page_vars

CloseShared(p) ==
    /\ pc[p] = "loop"
    /\ rest[p] # <<>>
    /\ ~Contiguous(prev[p], Head(rest[p]))
    /\ ranges' = [q \in DOMAIN ranges |-> Append(ranges[q], <<start[p], prev[p]>>)]
    /\ start' = [start EXCEPT ![p] = Head(rest[p])]
    /\ prev' = [prev EXCEPT ![p] = Head(rest[p])]
    /\ rest' = [rest EXCEPT ![p] = Tail(rest[p])]
    /\ UNCHANGED <<pc, indices, result, first, round>>
    /\ UNCHANGED page_vars

Close(p) ==
    /\ pc[p] = "loop"
    /\ rest[p] # <<>>
    /\ ~Contiguous(prev[p], Head(rest[p]))
    /\ ranges' = [ranges EXCEPT ![p] = Append(ranges[p], <<start[p], prev[p]>>)]
    /\ start' = [start EXCEPT ![p] = Head(rest[p])]
    /\ prev' = [prev EXCEPT ![p] = Head(rest[p])]
    /\ rest' = [rest EXCEPT ![p] = Tail(rest[p])]
    /\ UNCHANGED <<pc, indices, result, first, round>>
    /\ UNCHANGED page_vars

\* lines 43-44: the loop is over: append the open range and return
FinishNoAppend(p) ==
    /\ pc[p] = "loop"
    /\ rest[p] = <<>>
    /\ result' = [result EXCEPT ![p] = ranges[p]]
    /\ pc' = [pc EXCEPT ![p] = "done"]
    /\ UNCHANGED <<indices, rest, start, prev, ranges, first, round>>
    /\ UNCHANGED page_vars

FinishExclusiveEnd(p) ==
    /\ pc[p] = "loop"
    /\ rest[p] = <<>>
    /\ ranges' = [ranges EXCEPT ![p] = Append(ranges[p], <<start[p], prev[p] + 1>>)]
    /\ result' = [result EXCEPT ![p] = ranges'[p]]
    /\ pc' = [pc EXCEPT ![p] = "done"]
    /\ UNCHANGED <<indices, rest, start, prev, first, round>>
    /\ UNCHANGED page_vars

Finish(p) ==
    /\ pc[p] = "loop"
    /\ rest[p] = <<>>
    /\ ranges' = [ranges EXCEPT ![p] = Append(ranges[p], <<start[p], prev[p]>>)]
    /\ result' = [result EXCEPT ![p] = ranges'[p]]
    /\ pc' = [pc EXCEPT ![p] = "done"]
    /\ UNCHANGED <<indices, rest, start, prev, first, round>>
    /\ UNCHANGED page_vars

----------------------------------------------------------------------------
(* Re-expansion of a returned range list, and a second pass over it. *)

ExpandRange(r) == [k \in 1 .. (r[2] - r[1] + 1) |-> r[1] + k - 1]

RECURSIVE Expand(_)
Expand(rs) == IF rs = <<>> THEN <<>> ELSE ExpandRange(Head(rs)) \o Expand(Tail(rs))

Recompress(p) ==
    /\ pc[p] = "done"
    /\ round[p] = 1
    /\ first' = [first EXCEPT ![p] = result[p]]
    /\ round' = [round EXCEPT ![p] = 2]
    /\ indices' = [indices EXCEPT ![p] = Expand(result[p])]
    /\ pc' = [pc EXCEPT ![p] = "check"]
    /\ UNCHANGED <<rest, start, prev, ranges, result>>
    /\ UNCHANGED page_vars

----------------------------------------------------------------------------
(* The specifications of the helper. *)

NoPage ==
    /\ uploaded_file = [kind |-> "none", Class |-> <<>>]
    /\ section = "Upload Data"
    /\ calls = <<>>

InitCallers(P, Inputs) ==
    /\ indices \in [P -> Inputs]
    /\ pc = [p \in P |-> "check"]
    /\ rest = [p \in P |-> <<>>]
    /\ start = [p \in P |-> 0]
    /\ prev = [p \in P |-> 0]
    /\ ranges = [p \in P |-> <<>>]
    /\ result = [p \in P |-> <<>>]
    /\ first = [p \in P |-> <<>>]
    /\ round = [p \in P |-> 1]
    /\ NoPage

Init == InitCallers({1}, SeqsUpTo(Vals, MaxLen))

InitConc == InitCallers(Callers, SeqsUpTo(ConcVals, ConcLen))

Step(p) ==
    \/ CheckEmpty(p)
    \/ Begin(p)
    \/ Extend(p)
    \/ Close(p)
    \/ Finish(p)

NextRun == \E p \in DOMAIN pc : Step(p)

Next == \E p \in DOMAIN pc : Step(p) \/ Recompress(p)

\* one invocation, then a second one over the re-expansion of its result
Spec == Init /\ [][Next]_vars

\* one invocation, run to completion by the interpreter
LiveSpec == Init /\ [][NextRun]_vars /\ WF_vars(NextRun)

\* the invocations of Callers, their statements interleaved
SpecConc == InitConc /\ [][NextRun]_vars

----------------------------------------------------------------------------
(* The Streamlit script body: one run per widget interaction. *)

\* line 29: the options of the sidebar radio; the first is the default
Sections == {"Upload Data", "Overview Stats", "Index Viewer", "Visualizations"}

ClassVals == 0 .. MaxClass

\* lines 47-58: what the uploader can hold: nothing, a file read_csv rejects,
\* a table without the required columns, or a table with its Class column
Files ==
    {[kind |-> k, Class |-> <<>>] : k \in {"unreadable", "missing_columns"}}
        \cup {[kind |-> "ok", Class |-> c] : c \in SeqsUpTo(ClassVals, MaxRows)}

RECURSIVE index_tolist(_, _, _)
\* lines 62-63, 83, 88: card[card['Class'] == v].index.tolist(), from row k on;
\* read_csv labels the rows 0, 1, 2, ...
index_tolist(Class, v, k) ==
    IF k > Len(Class)
    THEN <<>>
    ELSE IF Class[k] = v
         THEN <<k - 1>> \o index_tolist(Class, v, k + 1)
         ELSE index_tolist(Class, v, k + 1)

RECURSIVE insert(_, _)
insert(x, xs) ==
    IF xs = <<>>
    THEN <<x>>
    ELSE IF x < Head(xs) THEN <<x>> \o xs ELSE <<Head(xs)>> \o insert(x, Tail(xs))

RECURSIVE insertDescending(_, _)
insertDescending(x, xs) ==
    IF xs = <<>>
    THEN <<x>>
    ELSE IF x > Head(xs) THEN <<x>> \o xs
         ELSE <<Head(xs)>> \o insertDescending(x, Tail(xs))

RECURSIVE sortedDescending(_)
sortedDescending(xs) ==
    IF xs = <<>> THEN <<>> ELSE insertDescending(Head(xs), sortedDescending(Tail(xs)))

RECURSIVE sorted(_)
\* lines 83, 88: the builtin sorted(), ascending
sorted(xs) == IF xs = <<>> THEN <<>> ELSE insert(Head(xs), sorted(Tail(xs)))

\* lines 83, 88: one call of the helper from the script, as the script sees it
Call(flag, arg) == [flag |-> flag, arg |-> arg, ranges |-> get_contiguous_ranges(arg)]

\* lines 49-143: the calls of get_contiguous_ranges one run of the script makes
Render(file, sec) ==
    IF file.kind # "ok"
    THEN <<>>
    ELSE IF sec = "Overview Stats"
         THEN <<Call(1, sorted(index_tolist(file.Class, 1, 1))),
                Call(0, sorted(index_tolist(file.Class, 0, 1)))>>
         ELSE <<>>

\* line 47: the user uploads a file (or replaces it); the script reruns
Upload(f) ==
    /\ uploaded_file # f
    /\ uploaded_file' = f
    /\ calls' = Render(f, section)
    /\ UNCHANGED section
    /\ UNCHANGED helper_vars

\* line 29: the user picks a section; the script reruns
SelectSection(s) ==
    /\ section # s
    /\ section' = s
    /\ calls' = Render(uploaded_file, s)
    /\ UNCHANGED uploaded_file
    /\ UNCHANGED helper_vars

InitRender ==
    /\ pc = <<>>
    /\ indices = <<>>
    /\ rest = <<>>
    /\ start = <<>>
    /\ prev = <<>>
    /\ ranges = <<>>
    /\ result = <<>>
    /\ first = <<>>
    /\ round = <<>>
    /\ NoPage

NextRender ==
    \/ \E f \in Files : Upload(f)
    \/ \E s \in Sections : SelectSection(s)

\* the dashboard: the script reruns on every upload and every section change
SpecRender == InitRender /\ [][NextRender]_vars

----------------------------------------------------------------------------
(* Vocabulary of the properties. *)

Done(p) == pc[p] = "done"

Elems(xs) == {xs[k] : k \in DOMAIN xs}

IsSorted(xs) == \A k \in 1 .. Len(xs) - 1 : xs[k] <= xs[k + 1]

IsStrictlySorted(xs) == \A k \in 1 .. Len(xs) - 1 : xs[k] < xs[k + 1]

Covered(rs) == UNION {rs[j][1] .. rs[j][2] : j \in DOMAIN rs}

IsRangeList(rs) ==
    /\ DOMAIN rs = 1 .. Len(rs)
    /\ \A j \in DOMAIN rs : Len(rs[j]) = 2 /\ rs[j][1] \in Int /\ rs[j][2] \in Int

HasWideRange(rs) == \E j \in DOMAIN rs : rs[j][1] < rs[j][2]

\* the positions 2..k of xs where the value is not its predecessor plus one
Breaks(xs, k) == {j \in 2 .. k : xs[j] # xs[j - 1] + 1}

SegStarts(xs, k) == {1} \cup Breaks(xs, k)

NthStart(xs, k, n) ==
    CHOOSE b \in SegStarts(xs, k) : Cardinality({c \in SegStarts(xs, k) : c < b}) = n - 1

SegEnd(xs, k, n) ==
    IF n = Cardinality(SegStarts(xs, k)) THEN k ELSE NthStart(xs, k, n + 1) - 1

\* (first element, last element) of each segment of xs[1..k]
Segments(xs, k) ==
    [n \in 1 .. Cardinality(SegStarts(xs, k)) |->
        <<xs[NthStart(xs, k, n)], xs[SegEnd(xs, k, n)]>>]

----------------------------------------------------------------------------
(* C1: for every sorted argument, the union of the returned inclusive      *)
(* intervals is the set of the argument's elements.                        *)
C1_UnionEqualsInput ==
    \A p \in DOMAIN pc :
        Done(p) /\ IsSorted(indices[p]) => Covered(result[p]) = Elems(indices[p])

C1_Witness ==
    \E p \in DOMAIN pc :
        /\ Done(p) /\ round[p] = 1 /\ IsSorted(indices[p])
        /\ Len(result[p]) >= 2 /\ HasWideRange(result[p])

(* C2 as stated: for every sorted argument, consecutive returned ranges    *)
(* satisfy s2 > e1 + 1 and every input value lies in exactly one range.    *)
C2_Original ==
    \A p \in DOMAIN pc :
        Done(p) /\ IsSorted(indices[p]) =>
            /\ \A j \in 1 .. Len(result[p]) - 1 : result[p][j + 1][1] > result[p][j][2] + 1
            /\ \A x \in Elems(indices[p]) :
                 Cardinality({j \in DOMAIN result[p] :
                                 x \in result[p][j][1] .. result[p][j][2]}) = 1

(* C2, amended: the same for every strictly ascending (duplicate-free)     *)
(* argument.                                                               *)
C2_NoAdjacentRanges ==
    \A p \in DOMAIN pc :
        Done(p) /\ IsStrictlySorted(indices[p]) =>
            /\ \A j \in 1 .. Len(result[p]) - 1 : result[p][j + 1][1] > result[p][j][2] + 1
            /\ \A x \in Elems(indices[p]) :
                 Cardinality({j \in DOMAIN result[p] :
                                 x \in result[p][j][1] .. result[p][j][2]}) = 1

C2_Witness ==
    \E p \in DOMAIN pc :
        /\ Done(p) /\ round[p] = 1 /\ IsStrictlySorted(indices[p])
        /\ Len(result[p]) >= 2 /\ HasWideRange(result[p])

(* C3 as stated: for every sorted argument, each returned pair has         *)
(* start <= end and each start is greater than the start before it.        *)
C3_Original ==
    \A p \in DOMAIN pc :
        Done(p) /\ IsSorted(indices[p]) =>
            /\ \A j \in DOMAIN result[p] : result[p][j][1] <= result[p][j][2]
            /\ \A j \in 1 .. Len(result[p]) - 1 : result[p][j + 1][1] > result[p][j][1]

(* C3, amended: for every sorted argument, each returned pair has          *)
(* start <= end and each start is at least the end of the pair before it   *)
(* (so the starts never decrease); each start is greater than the start    *)
(* before it when the argument holds no duplicates.                        *)
C3_OrderedRanges ==
    \A p \in DOMAIN pc :
        Done(p) /\ IsSorted(indices[p]) =>
            /\ \A j \in DOMAIN result[p] : result[p][j][1] <= result[p][j][2]
            /\ \A j \in 1 .. Len(result[p]) - 1 :
                 /\ result[p][j + 1][1] >= result[p][j][2]
                 /\ result[p][j + 1][1] >= result[p][j][1]
            /\ IsStrictlySorted(indices[p]) =>
                 \A j \in 1 .. Len(result[p]) - 1 : result[p][j + 1][1] > result[p][j][1]

C3_Witness ==
    \E p \in DOMAIN pc :
        /\ Done(p) /\ round[p] = 1 /\ IsSorted(indices[p])
        /\ ~IsStrictlySorted(indices[p])
        /\ Len(result[p]) >= 2 /\ HasWideRange(result[p])

(* C4: expanding the returned ranges into their integers, in order, and    *)
(* compressing the expansion returns the same range list.                  *)
C4_RecompressIdentical ==
    \A p \in DOMAIN pc : Done(p) /\ round[p] = 2 => result[p] = first[p]

C4_Witness ==
    \E p \in DOMAIN pc :
        /\ Done(p) /\ round[p] = 2 /\ IsSorted(indices[p])
        /\ Len(first[p]) >= 2 /\ HasWideRange(first[p])

(* C5: for every finite integer sequence, empty and unsorted ones          *)
(* included, the call never reaches an error and completes with a list of  *)
(* ranges.                                                                 *)
C5_NeverFails ==
    /\ [](\A p \in DOMAIN pc :
            /\ pc[p] # "error"
            /\ Done(p) => IsRangeList(result[p]))
    /\ <>(\A p \in DOMAIN pc : Done(p))

C5_Witness ==
    \E p \in DOMAIN pc :
        /\ Done(p) /\ ~IsSorted(indices[p])
        /\ Len(result[p]) >= 2 /\ IsRangeList(result[p])

(* C6: the result is empty exactly when the argument is empty; for a       *)
(* non-empty argument the last range ends at the last element.             *)
C6_EmptyIffEmpty ==
    \A p \in DOMAIN pc :
        Done(p) =>
            /\ result[p] = <<>> <=> indices[p] = <<>>
            /\ indices[p] # <<>> =>
                 /\ Len(result[p]) >= 1
                 /\ result[p][Len(result[p])][2] = indices[p][Len(indices[p])]

C6_Witness ==
    \E p \in DOMAIN pc :
        /\ Done(p) /\ round[p] = 1 /\ indices[p] # <<>>
        /\ Len(result[p]) >= 2
        /\ result[p][Len(result[p])][1] < result[p][Len(result[p])][2]

(* C7: with the statements of several invocations interleaved, each        *)
(* returns what it returns alone, and no argument is ever changed.         *)
C7_Independent ==
    /\ [](\A p \in DOMAIN pc : Done(p) => result[p] = get_contiguous_ranges(indices[p]))
    /\ [][indices' = indices]_vars

C7_Witness ==
    /\ Done(1) /\ Len(result[1]) >= 2
    /\ pc[2] = "loop" /\ ranges[2] # <<>>

C9_SplitsAtBreaks ==
    \A p \in DOMAIN pc :
        /\ pc[p] = "loop" =>
             LET k == Len(indices[p]) - Len(rest[p])
                 segs == Segments(indices[p], k)
             IN /\ Len(ranges[p]) = Cardinality(Breaks(indices[p], k))
                /\ ranges[p] = SubSeq(segs, 1, Len(segs) - 1)
                /\ <<start[p], prev[p]>> = segs[Len(segs)]
        /\ Done(p) /\ indices[p] # <<>> =>
             /\ Len(result[p]) = 1 + Cardinality(Breaks(indices[p], Len(indices[p])))
             /\ result[p] = Segments(indices[p], Len(indices[p]))

C9_Witness ==
    \E p \in DOMAIN pc :
        /\ Done(p) /\ round[p] = 1 /\ ~IsSorted(indices[p])
        /\ Len(result[p]) = 2 /\ Len(indices[p]) = 4

(* C10: for every finite integer sequence, each returned range has         *)
(* start <= end and the ranges, expanded in order and concatenated, are    *)
(* the argument itself.                                                    *)
C10_ExpansionIsInput ==
    \A p \in DOMAIN pc :
        Done(p) =>
            /\ \A j \in DOMAIN result[p] : result[p][j][1] <= result[p][j][2]
            /\ Expand(result[p]) = indices[p]

C10_Witness ==
    \E p \in DOMAIN pc :
        /\ Done(p) /\ round[p] = 1 /\ ~IsSorted(indices[p])
        /\ Cardinality(Elems(indices[p])) < Len(indices[p])
        /\ HasWideRange(result[p])

====
